---- MODULE Spec2Model ----
(***************************************************************************)
(* Verification model of the pension calculator's projection arithmetic:   *)
(*   - the Debeka / ETF / classic comparison page (DebekaComparison.tsx),  *)
(*   - the compounding primitive calculateFutureValue and the funds tab's  *)
(*     inline future value of the calculator page,                         *)
(*   - the calculator form, its debounced simulation request and the       *)
(*     editable result values with their inline editing,                   *)
(*   - the layout's onboarding wizard, the router location under a base    *)
(*     path and the cookie banner.                                         *)
(*                                                                         *)
(* JavaScript numbers are modelled in fixed point.  Money is held in cents,*)
(* rates and growth factors in millionths (Scale), annuity factors in      *)
(* thousandths (AnnuityScale).  Every product and quotient is computed     *)
(* limb-wise so that no intermediate value leaves the 32-bit range.        *)
(***************************************************************************)
EXTENDS Integers, Naturals, Sequences, FiniteSets, TLC

VARIABLES inputs, language, comparison,
          fvCall, fvOutcome, fundsSettings,
          formValues, defaultValues, simulationTimer, simulationMutation,
          simulationResults, isLoading, editableValues,
          mounted, scheduledTimers,
          tempEditValues, validationErrors, pendingEditSaves, saveScenarioMutation,
          layout, onboardingStore, localStorage, initializeOnboarding,
          runtimeBase, loc, browserHistory,
          cookieBanner, storedConsent, pendingConsentWrites, chosenConsent

vars == <<inputs, language, comparison, fvCall, fvOutcome, fundsSettings,
          formValues, defaultValues, simulationTimer, simulationMutation,
          simulationResults, isLoading, editableValues,
          mounted, scheduledTimers,
          tempEditValues, validationErrors, pendingEditSaves, saveScenarioMutation,
          layout, onboardingStore, localStorage, initializeOnboarding,
          runtimeBase, loc, browserHistory,
          cookieBanner, storedConsent, pendingConsentWrites, chosenConsent>>

cmpVars == <<inputs, language, comparison>>
homeVars == <<fvCall, fvOutcome, fundsSettings>>
simVars == <<formValues, defaultValues, simulationTimer, simulationMutation,
             simulationResults, isLoading, editableValues,
             mounted, scheduledTimers>>
editVars == <<tempEditValues, validationErrors, pendingEditSaves, saveScenarioMutation>>
layoutVars == <<layout, onboardingStore, localStorage, initializeOnboarding>>
routerVars == <<runtimeBase, loc, browserHistory>>
cookieVars == <<cookieBanner, storedConsent, pendingConsentWrites, chosenConsent>>
shellVars == <<layoutVars, routerVars, cookieVars>>
pageVars == <<cmpVars, homeVars, simVars, editVars>>

----------------------------------------------------------------------------
(* Fixed-point arithmetic standing for the double arithmetic of the source *)

Scale == 1000 * 1000

AnnuityScale == 10 * 100

Cents == 10 * 10

Limb == 10 * 100

Abs(x) == IF x < 0 THEN -x ELSE x

Sgn(x) == IF x < 0 THEN -1 ELSE 1

\* a * b for a, b held in millionths (or one of them money): |a|*|b| / Scale,
\* truncated toward zero, computed on three-digit limbs.
MulFix(a, b) ==
    LET aH == Abs(a) \div Limb
        aL == Abs(a) % Limb
        bH == Abs(b) \div Limb
        bL == Abs(b) % Limb
    IN  Sgn(a) * Sgn(b) *
        (aH * bH + ((aH * bL + aL * bH + ((aL * bL) \div Limb)) \div Limb))

\* a * b / c for a rate b below the rate c (b, c in millionths).
MulDiv(a, b, c) ==
    Sgn(a) * ((Abs(a) \div c) * b + (((Abs(a) % c) * b) \div c))

\* money * annuity factor (thousandths) -> money
MulAnnuity(m, f) ==
    LET fH == Abs(f) \div AnnuityScale
        fL == Abs(f) % AnnuityScale
    IN  Sgn(m) * Sgn(f) * (Abs(m) * fH + ((Abs(m) * fL) \div AnnuityScale))

RECURSIVE LongDiv(_, _, _, _)
LongDiv(q, r, b, digits) ==
    IF digits = 0 THEN q
    ELSE LongDiv(q * 10 + ((r * 10) \div b), (r * 10) % b, b, digits - 1)

\* a / b with the quotient carrying `digits` decimal places, truncated
\* toward zero (b # 0).
DivTo(a, b, digits) ==
    Sgn(a) * Sgn(b) * LongDiv(Abs(a) \div Abs(b), Abs(a) % Abs(b), Abs(b), digits)

\* a / n for a whole number n > 0, truncated toward zero.
DivInt(a, n) == Sgn(a) * (Abs(a) \div n)

RECURSIVE PowNat(_, _)
PowNat(x, n) ==
    IF n = 0 THEN Scale
    ELSE IF n % 2 = 0
         THEN LET h == PowNat(x, n \div 2) IN MulFix(h, h)
         ELSE MulFix(x, PowNat(x, n - 1))

\* Math.pow(x, n) for a factor x in millionths and a whole exponent n.
Pow(x, n) == IF n >= 0 THEN PowNat(x, n) ELSE DivTo(Scale, PowNat(x, -n), 6)

\* (Math.pow(1 + monthlyRate, months) - 1) / monthlyRate, in thousandths.
AnnuityFactor(monthlyRate, months) ==
    DivTo(Pow(Scale + monthlyRate, months) - Scale, monthlyRate, 3)

----------------------------------------------------------------------------
(* DebekaComparison: input domains                                         *)

MaxAge == 101

MaxSliderStep == 6

\* Number(e.target.value) of the age fields; a cleared field yields 0.
Ages == {0, 35, 67, MaxAge}

\* typed into the contribution field (euros); the min attribute does not
\* stop a typed negative number.
TypedContributions == {-50, 0, 300}

\* the slider moves in steps of 50 from 0
SliderValues == {k * 50 : k \in 0..MaxSliderStep}

TypedAssets == {0, 1000, 20000}

Languages == {"de", "en"}

Vehicles == <<"debeka", "etf", "klassisch">>

----------------------------------------------------------------------------
(* DebekaComparison: the comparison memo                                   *)

debekaGrowthRate == 60000

debekaCosts == 13000

\* the annual costs left out of the compounding rate
debekaNetGrowth_NoCosts == debekaGrowthRate

debekaNetGrowth == debekaGrowthRate - debekaCosts

debekaMonthlyReturn == DivInt(debekaNetGrowth, 12)

\* the whole pension taken as taxable
debekaErtragsanteil_Whole == Scale

debekaErtragsanteil == 170000

personalTaxRate == 250000

withdrawalRate == 40000

etfGrowthRate == 70000

etfCosts == 3000

etfGrossReturn == etfGrowthRate - etfCosts

abgeltungssteuer == 263750

etfAnnualGains == etfGrossReturn

etfTaxOnGains == MulFix(etfAnnualGains, abgeltungssteuer)

\* the annual tax left out of the compounding rate
etfNetGrowth_Untaxed == etfGrossReturn

etfNetGrowth == etfGrossReturn - etfTaxOnGains

etfMonthlyReturn == DivInt(etfNetGrowth, 12)

klassischGrowthRate == 20000

klassischCosts == 10000

klassischNetGrowth == klassischGrowthRate - klassischCosts

klassischMonthlyReturn == DivInt(klassischNetGrowth, 12)

retirementYears == 20

\* currentAssets * Math.pow(1 + netGrowth, years) +
\* monthlyContribution * ((Math.pow(1 + monthlyReturn, months) - 1) / monthlyReturn)
VehicleFutureValue(currentAssets, monthlyContribution, netGrowth, monthlyReturn, years, months) ==
    MulFix(currentAssets, Pow(Scale + netGrowth, years))
    + MulAnnuity(monthlyContribution, AnnuityFactor(monthlyReturn, months))

\* the yearly withdrawal passed on as the monthly pension
GrossMonthlyPension_Yearly(futureValue) == MulFix(futureValue, withdrawalRate)

\* (futureValue * 0.04) / 12
GrossMonthlyPension(futureValue) == DivInt(MulFix(futureValue, withdrawalRate), 12)

\* a tax credited instead of charged
ErtragsanteilTax_Credited(gross) == -MulFix(MulFix(gross, debekaErtragsanteil), personalTaxRate)

\* taxableAmount = gross * ertragsanteil; tax = taxableAmount * 0.25
ErtragsanteilTax(gross) == MulFix(MulFix(gross, debekaErtragsanteil), personalTaxRate)

\* monthlyContribution * 12 * years * etfTaxOnGains / etfGrossReturn
etfTaxDuringAccumulation(monthlyContribution, years) ==
    MulDiv(monthlyContribution * 12 * years, etfTaxOnGains, etfGrossReturn)

\* the difference taken as higher minus lower
TaxAdvantage_Unsigned(totalEtfTax, debeka30YearTax) == Abs(totalEtfTax - debeka30YearTax)

\* totalEtfTax - debeka30YearTax
TaxAdvantage(totalEtfTax, debeka30YearTax) == totalEtfTax - debeka30YearTax

\* the useMemo body: money in cents, netReturn and taxRate in millionths of
\* the displayed percentage
Comparison(inp) ==
    LET years == inp.retirementAge - inp.currentAge
        months == years * 12
        assets == inp.currentAssets * Cents
        contribution == inp.monthlyContribution * Cents
        totalContributions == contribution * months + assets
        debekaFutureValue ==
            VehicleFutureValue(assets, contribution, debekaNetGrowth,
                               debekaMonthlyReturn, years, months)
        debekaGrossMonthlyPension == GrossMonthlyPension(debekaFutureValue)
        debekaTax == ErtragsanteilTax(debekaGrossMonthlyPension)
        debekaNetMonthlyPension == debekaGrossMonthlyPension - debekaTax
        etfFutureValue ==
            VehicleFutureValue(assets, contribution, etfNetGrowth,
                               etfMonthlyReturn, years, months)
        etfNetMonthlyPension == GrossMonthlyPension(etfFutureValue)
        klassischFutureValue ==
            VehicleFutureValue(assets, contribution, klassischNetGrowth,
                               klassischMonthlyReturn, years, months)
        klassischGrossMonthlyPension == GrossMonthlyPension(klassischFutureValue)
        klassischTax == ErtragsanteilTax(klassischGrossMonthlyPension)
        klassischNetMonthlyPension == klassischGrossMonthlyPension - klassischTax
        debeka30YearTax == debekaTax * 12 * retirementYears
        totalEtfTax == etfTaxDuringAccumulation(contribution, years)
    IN  [ debeka |-> [ finalCapital |-> debekaFutureValue,
                       monthlyPension |-> debekaNetMonthlyPension,
                       grossMonthlyPension |-> debekaGrossMonthlyPension,
                       totalTax |-> debeka30YearTax,
                       netReturn |-> debekaNetGrowth * 100,
                       taxRate |-> debekaErtragsanteil * 100 ],
          etf |-> [ finalCapital |-> etfFutureValue,
                    monthlyPension |-> etfNetMonthlyPension,
                    grossMonthlyPension |-> etfNetMonthlyPension,
                    totalTax |-> totalEtfTax,
                    netReturn |-> etfNetGrowth * 100,
                    taxRate |-> abgeltungssteuer * 100 ],
          klassisch |-> [ finalCapital |-> klassischFutureValue,
                          monthlyPension |-> klassischNetMonthlyPension,
                          grossMonthlyPension |-> klassischGrossMonthlyPension,
                          totalTax |-> klassischTax * 12 * retirementYears,
                          netReturn |-> klassischNetGrowth * 100,
                          taxRate |-> debekaErtragsanteil * 100 ],
          taxAdvantage |-> TaxAdvantage(totalEtfTax, debeka30YearTax),
          totalContributions |-> totalContributions,
          years |-> years ]

\* the second comparison turned around
Winner_Reversed(cmp) ==
    IF cmp.debeka.monthlyPension > cmp.etf.monthlyPension
       /\ cmp.debeka.monthlyPension > cmp.klassisch.monthlyPension
    THEN "debeka"
    ELSE IF cmp.etf.monthlyPension < cmp.klassisch.monthlyPension
         THEN "etf"
         ELSE "klassisch"

\* the nested conditional that picks the card carrying the winner badge
Winner(cmp) ==
    IF cmp.debeka.monthlyPension > cmp.etf.monthlyPension
       /\ cmp.debeka.monthlyPension > cmp.klassisch.monthlyPension
    THEN "debeka"
    ELSE IF cmp.etf.monthlyPension > cmp.klassisch.monthlyPension
         THEN "etf"
         ELSE "klassisch"

winner == Winner(comparison)

\* Intl.NumberFormat(locale, currency EUR, maximumFractionDigits 0): whole
\* euros rounded half away from zero, the sign of the value kept.
formatCurrency(lang, value) ==
    [ locale |-> IF lang = "de" THEN "de-DE" ELSE "en-US",
      negative |-> value < 0,
      euros |-> (Abs(value) + (Cents \div 2)) \div Cents ]

\* {comparison.taxAdvantage > 0 && (...)}
TaxAdvantageAlert ==
    IF comparison.taxAdvantage > 0
    THEN [ shown |-> TRUE, amount |-> formatCurrency(language, comparison.taxAdvantage) ]
    ELSE [ shown |-> FALSE ]

\* the call-to-action paragraph, rendered unconditionally
CtaSection == [ shown |-> TRUE, amount |-> formatCurrency(language, comparison.taxAdvantage) ]

\* the dashboard's pension estimate of a contribution stream: 4% average
\* return, then the 4% withdrawal
estimatedPensionFromContributions(monthlyContribution, yrs) ==
    IF monthlyContribution = 0 \/ yrs <= 0
    THEN 0
    ELSE LET annualReturn == 40000
             monthlyReturn == DivInt(annualReturn, 12)
             months == yrs * 12
             futureValue == MulAnnuity(monthlyContribution,
                                       AnnuityFactor(monthlyReturn, months))
         IN  DivInt(MulFix(futureValue, 40000), 12)

----------------------------------------------------------------------------
(* DebekaComparison: handlers.  setInputs re-renders, and the memo is      *)
(* recomputed because its dependency `inputs` changed.                     *)

DefaultInputs ==
    [ currentAge |-> 35, monthlyContribution |-> 300, currentAssets |-> 0,
      retirementAge |-> 67 ]

\* a memo whose dependency list leaves out currentAssets
SetInputs_StaleMemo(newInputs) ==
    /\ inputs' = newInputs
    /\ comparison' = IF \/ newInputs.currentAge # inputs.currentAge
                        \/ newInputs.retirementAge # inputs.retirementAge
                        \/ newInputs.monthlyContribution # inputs.monthlyContribution
                     THEN Comparison(newInputs)
                     ELSE comparison
    /\ UNCHANGED <<language>>
    /\ UNCHANGED homeVars
    /\ UNCHANGED simVars
    /\ UNCHANGED editVars
    /\ UNCHANGED shellVars

SetInputs(newInputs) ==
    /\ inputs' = newInputs
    /\ comparison' = Comparison(newInputs)
    /\ UNCHANGED <<language>>
    /\ UNCHANGED homeVars
    /\ UNCHANGED simVars
    /\ UNCHANGED editVars
    /\ UNCHANGED shellVars

ChangeCurrentAge ==
    \E v \in Ages : SetInputs([inputs EXCEPT !.currentAge = v])

ChangeMonthlyContribution ==
    \E v \in TypedContributions : SetInputs([inputs EXCEPT !.monthlyContribution = v])

SlideMonthlyContribution ==
    \E v \in SliderValues : SetInputs([inputs EXCEPT !.monthlyContribution = v])

ChangeCurrentAssets ==
    \E v \in TypedAssets : SetInputs([inputs EXCEPT !.currentAssets = v])

ChangeRetirementAge ==
    \E v \in Ages : SetInputs([inputs EXCEPT !.retirementAge = v])

\* the language prop changes: re-render, the memo is kept
ChangeLanguage ==
    /\ \E l \in Languages : language' = l
    /\ UNCHANGED <<inputs, comparison>>
    /\ UNCHANGED homeVars
    /\ UNCHANGED simVars
    /\ UNCHANGED editVars
    /\ UNCHANGED shellVars

----------------------------------------------------------------------------
(* Calculator page: calculateFutureValue and the funds tab                 *)

maxInvestmentYears == 100

maxTermYears == 40

minTermYears == 5

\* arguments tried on calculateFutureValue: euros, millionths, years
FvPayments == {-100, 0, 100, 500}

FvRates == {-10000, 0, 40000, 50000}

FvYears == {-1, 0, 1, 25, maxInvestmentYears, maxInvestmentYears + 1}

\* the upper bound of the period taken as exclusive
calculateFutureValueTry_Exclusive(monthlyPayment, annualRate, years) ==
    IF monthlyPayment < 0 \/ annualRate < 0 \/ years < 0
    THEN [ kind |-> "throw", message |-> "Values must be non-negative" ]
    ELSE IF years >= maxInvestmentYears
    THEN [ kind |-> "throw", message |-> "Investment period too long" ]
    ELSE LET monthlyRate == DivInt(annualRate, 12)
             totalMonths == years * 12
         IN  IF monthlyRate = 0
             THEN [ kind |-> "return", value |-> monthlyPayment * totalMonths ]
             ELSE [ kind |-> "return",
                    value |-> MulAnnuity(monthlyPayment,
                                         AnnuityFactor(monthlyRate, totalMonths)) ]

\* the body of the try block: either a return value or a thrown Error
calculateFutureValueTry(monthlyPayment, annualRate, years) ==
    IF monthlyPayment < 0 \/ annualRate < 0 \/ years < 0
    THEN [ kind |-> "throw", message |-> "Values must be non-negative" ]
    ELSE IF years > maxInvestmentYears
    THEN [ kind |-> "throw", message |-> "Investment period too long" ]
    ELSE LET monthlyRate == DivInt(annualRate, 12)
             totalMonths == years * 12
         IN  IF monthlyRate = 0
             THEN [ kind |-> "return", value |-> monthlyPayment * totalMonths ]
             ELSE [ kind |-> "return",
                    value |-> MulAnnuity(monthlyPayment,
                                         AnnuityFactor(monthlyRate, totalMonths)) ]

\* try { ... } catch (error) { console.error(...); return 0; }
calculateFutureValue(monthlyPayment, annualRate, years) ==
    LET t == calculateFutureValueTry(monthlyPayment, annualRate, years)
    IN  IF t.kind = "throw"
        THEN [ kind |-> "return", value |-> 0, logged |-> t.message ]
        ELSE [ kind |-> "return", value |-> t.value, logged |-> "" ]

CallCalculateFutureValue ==
    \E m \in FvPayments, r \in FvRates, y \in FvYears :
        /\ fvCall' = [ monthlyPayment |-> m, annualRate |-> r, years |-> y ]
        /\ fvOutcome' = calculateFutureValue(m * Cents, r, y)
        /\ UNCHANGED fundsSettings
        /\ UNCHANGED cmpVars
        /\ UNCHANGED simVars
        /\ UNCHANGED editVars
        /\ UNCHANGED shellVars

DefaultFundsSettings ==
    [ monthlyContribution |-> 500, termYears |-> 25, expectedReturn |-> 65000,
      showCustomReturn |-> FALSE ]

FundsContributions == {0, 100, 500}

FundsTerms == {minTermYears, 25, maxTermYears}

FundsPresets == {50000, 70000, 90000}

\* typed into the custom return field, in tenths of a percent
CustomReturns == {-10, 0, 85}

\* "Prognostiziertes Endkapital": the inline future value of the funds tab
FundsFutureValue(fs) ==
    LET monthlyRate == DivInt(fs.expectedReturn, 12)
        totalMonths == fs.termYears * 12
    IN  IF monthlyRate = 0
        THEN fs.monthlyContribution * Cents * totalMonths
        ELSE MulAnnuity(fs.monthlyContribution * Cents,
                        AnnuityFactor(monthlyRate, totalMonths))

ChangeFundsMonthly ==
    \E value \in FundsContributions :
        /\ value >= 0
        /\ fundsSettings' = [fundsSettings EXCEPT !.monthlyContribution = value]
        /\ UNCHANGED <<fvCall, fvOutcome>>
        /\ UNCHANGED cmpVars
        /\ UNCHANGED simVars
        /\ UNCHANGED editVars
        /\ UNCHANGED shellVars

ChangeFundsTermYears ==
    \E value \in FundsTerms :
        /\ fundsSettings' = [fundsSettings EXCEPT !.termYears = value]
        /\ UNCHANGED <<fvCall, fvOutcome>>
        /\ UNCHANGED cmpVars
        /\ UNCHANGED simVars
        /\ UNCHANGED editVars
        /\ UNCHANGED shellVars

SelectFundsPreset ==
    \E r \in FundsPresets :
        /\ fundsSettings' = [fundsSettings EXCEPT !.expectedReturn = r]
        /\ UNCHANGED <<fvCall, fvOutcome>>
        /\ UNCHANGED cmpVars
        /\ UNCHANGED simVars
        /\ UNCHANGED editVars
        /\ UNCHANGED shellVars

ToggleCustomReturn ==
    /\ fundsSettings' = [fundsSettings EXCEPT !.showCustomReturn = ~@]
    /\ UNCHANGED <<fvCall, fvOutcome>>
    /\ UNCHANGED cmpVars
    /\ UNCHANGED simVars
    /\ UNCHANGED editVars
    /\ UNCHANGED shellVars

\* value / 100 of a percentage typed with one decimal
ChangeCustomReturn ==
    \E tenths \in CustomReturns :
        /\ fundsSettings.showCustomReturn
        /\ fundsSettings' = [fundsSettings EXCEPT !.expectedReturn = tenths * (Scale \div 1000)]
        /\ UNCHANGED <<fvCall, fvOutcome>>
        /\ UNCHANGED cmpVars
        /\ UNCHANGED simVars
        /\ UNCHANGED editVars
        /\ UNCHANGED shellVars

\* if (simulationTimer.current) clearTimeout(simulationTimer.current):
\* simulationTimer tells whether the ref names a timer that is still
\* scheduled, scheduledTimers counts the simulation timers the browser holds
ClearSimulationTimer ==
    /\ simulationTimer' = FALSE
    /\ scheduledTimers' = IF simulationTimer THEN scheduledTimers - 1 ELSE scheduledTimers

\* the confirmed "reset all settings" button: the settings go back to their
\* defaults and form.reset() puts the form's default values back.  The
\* watch callback schedules the simulation timer, and the re-render that
\* the settings change causes re-runs the debounce effect, whose cleanup
\* clears that timer.
ResetAllSettings ==
    /\ mounted
    /\ fundsSettings' = DefaultFundsSettings
    /\ formValues' = defaultValues
    /\ ClearSimulationTimer
    /\ UNCHANGED <<fvCall, fvOutcome>>
    /\ UNCHANGED <<defaultValues, simulationMutation, simulationResults,
                   isLoading, editableValues, mounted>>
    /\ UNCHANGED cmpVars
    /\ UNCHANGED editVars
    /\ UNCHANGED shellVars

----------------------------------------------------------------------------
(* Calculator page: the form, the debounced simulation, the result values  *)

\* useForm's defaultValues (the fields the modelled handlers touch)
FormDefaults ==
    [ currentAge |-> 30, startAge |-> 30, termYears |-> 30,
      monthlyContribution |-> 500, startInvestment |-> 10000,
      payoutStartAge |-> 67, payoutEndAge |-> 85 ]

\* formSchema, the zod object behind formState.isValid
formSchema(f) ==
    /\ f.currentAge >= 18 /\ f.currentAge <= 80
    /\ f.startAge >= 16 /\ f.startAge <= 80
    /\ f.termYears >= 5 /\ f.termYears <= 45
    /\ f.monthlyContribution >= 0
    /\ f.startInvestment >= 0
    /\ f.payoutStartAge >= 62 /\ f.payoutStartAge <= 85
    /\ f.payoutEndAge >= 62 /\ f.payoutEndAge <= 85

\* Array.from({ length: 9 }, (_, i) => i + 62)
payoutStartAgeOptions == {i + 62 : i \in 0..8}

\* an end-age list starting where the start-age list starts
payoutEndAgeOptions_FromStart == {i + 62 : i \in 0..10}

\* Array.from({ length: 11 }, (_, i) => i + 75)
payoutEndAgeOptions == {i + 75 : i \in 0..10}

\* the ages a user picks in the two selects
PickedPayoutAges == {62, 70, 75, 85}

\* what the onboarding store holds: completion flag, personal.age and
\* privatePension.contribution (0 for a missing value)
OnboardingStates ==
    { [ isCompleted |-> TRUE, age |-> 0, contribution |-> 0 ],
      [ isCompleted |-> FALSE, age |-> 64, contribution |-> 250 ],
      [ isCompleted |-> FALSE, age |-> 85, contribution |-> 250 ],
      [ isCompleted |-> FALSE, age |-> 40, contribution |-> 0 ] }

\* JavaScript's a || b on numbers
OrElse(a, b) == IF a # 0 THEN a ELSE b

\* the values form.reset receives in the pre-fill effect
PrefilledValues(o) ==
    LET currentAge == OrElse(o.age, 30)
        monthlyContribution == OrElse(o.contribution, 500)
    IN  [ currentAge |-> currentAge, startAge |-> currentAge,
          termYears |-> IF 67 - currentAge > 5 THEN 67 - currentAge ELSE 5,
          monthlyContribution |-> monthlyContribution, startInvestment |-> 10000,
          payoutStartAge |-> 67, payoutEndAge |-> 85 ]

\* kpis of the responses the simulation endpoint sends (whole euros,
\* netReturn in thousandths); a missing kpi reads as 0
SimulationKpis ==
    { [ monthlyPension |-> 1200, projectedValue |-> 400000, totalCosts |-> 0,
        netReturn |-> 52 ],
      [ monthlyPension |-> 900, projectedValue |-> 300000, totalCosts |-> 25000,
        netReturn |-> 48 ] }

NoKpis == [ monthlyPension |-> 0, projectedValue |-> 0, totalCosts |-> 0, netReturn |-> 0 ]

\* useState(null) of simulationResults
NoSimulationResults == [ present |-> FALSE, kpis |-> NoKpis ]

InitialEditableValues ==
    [ f \in {"monthlyPension", "finalPayout", "totalCosts", "effectiveReturn"} |->
        [ isEditing |-> FALSE, value |-> 0, originalValue |-> 0 ] ]

\* the kpi an editable field is fed from
KpiOf(field) ==
    CASE field = "monthlyPension" -> "monthlyPension"
      [] field = "finalPayout" -> "projectedValue"
      [] field = "totalCosts" -> "totalCosts"
      [] field = "effectiveReturn" -> "netReturn"

\* the effect on [simulationResults]: originalValue follows the result,
\* value keeps what it holds unless that is 0
UpdateEditableValues(prev, results) ==
    [ f \in DOMAIN prev |->
        [ prev[f] EXCEPT !.originalValue = OrElse(results.kpis[KpiOf(f)], 0),
                         !.value = OrElse(prev[f].value,
                                          OrElse(results.kpis[KpiOf(f)], 0)) ] ]

\* simulationMutation.mutate(data): the request is in flight, the mutation
\* pending, and mutationFn has set isLoading
Mutate(data) ==
    /\ simulationMutation' = [ status |-> "pending", variables |-> data ]
    /\ isLoading' = TRUE

\* a watch callback that schedules a timer without clearing the previous one
WatchedChange_NoClear(newValues) ==
    /\ mounted
    /\ formValues' = newValues
    /\ simulationTimer' = TRUE
    /\ scheduledTimers' = scheduledTimers + 1
    /\ UNCHANGED <<defaultValues, simulationMutation, simulationResults,
                   isLoading, editableValues, mounted>>
    /\ UNCHANGED cmpVars
    /\ UNCHANGED editVars
    /\ UNCHANGED shellVars
    /\ UNCHANGED homeVars

\* a change of a form field: the watch callback clears the scheduled timer
\* and schedules a new one
WatchedChange(newValues) ==
    /\ mounted
    /\ formValues' = newValues
    /\ simulationTimer' = TRUE
    /\ scheduledTimers' = (IF simulationTimer THEN scheduledTimers - 1
                           ELSE scheduledTimers) + 1
    /\ UNCHANGED <<defaultValues, simulationMutation, simulationResults,
                   isLoading, editableValues, mounted>>
    /\ UNCHANGED cmpVars
    /\ UNCHANGED editVars
    /\ UNCHANGED shellVars
    /\ UNCHANGED homeVars

\* typed into the monthly contribution field: '' reads as 0, a negative
\* number is ignored
TypedFormContributions == {-50, 0, 250}

ChangeFormMonthlyContribution ==
    \E value \in TypedFormContributions :
        /\ value >= 0
        /\ WatchedChange([formValues EXCEPT !.monthlyContribution = value])

SelectPayoutStartAge ==
    \E value \in payoutStartAgeOptions \cap PickedPayoutAges :
        WatchedChange([formValues EXCEPT !.payoutStartAge = value])

SelectPayoutEndAge ==
    \E value \in payoutEndAgeOptions \cap PickedPayoutAges :
        WatchedChange([formValues EXCEPT !.payoutEndAge = value])

\* the page re-renders while a timer is scheduled (any state change of the
\* page, and a change of a field the page watches while rendering, such as
\* the payout ages): useMutation returns a new object on every render, the
\* debounce effect depends on it, and its cleanup clears the timer
PageRerenders ==
    /\ mounted
    /\ simulationTimer
    /\ ClearSimulationTimer
    /\ UNCHANGED <<formValues, defaultValues, simulationMutation, simulationResults,
                   isLoading, editableValues, mounted>>
    /\ UNCHANGED cmpVars
    /\ UNCHANGED editVars
    /\ UNCHANGED shellVars
    /\ UNCHANGED homeVars

\* the onboarding store changes to a state with onboarding data: the page
\* re-renders, the debounce effect's cleanup clears the timer and
\* unsubscribes, and the pre-fill effect calls form.reset(values) before
\* the watch is subscribed again
PrefillFromOnboarding ==
    \E o \in OnboardingStates :
        LET hasOnboardingData ==
                o.isCompleted \/ (o.age # 0 /\ o.contribution # 0)
        IN  /\ mounted
            /\ hasOnboardingData
            /\ formValues' = PrefilledValues(o)
            /\ defaultValues' = PrefilledValues(o)
            /\ ClearSimulationTimer
            /\ UNCHANGED <<simulationMutation, simulationResults, isLoading,
                           editableValues, mounted>>
            /\ UNCHANGED cmpVars
            /\ UNCHANGED editVars
            /\ UNCHANGED shellVars
            /\ UNCHANGED homeVars

\* a scheduled 300 ms timer fires, the oldest first (the ref names the
\* newest): the form's values are sent unless the form is invalid or a
\* request is pending
SimulationTimerFires ==
    /\ scheduledTimers > 0
    /\ scheduledTimers' = scheduledTimers - 1
    /\ simulationTimer' = (simulationTimer /\ scheduledTimers > 1)
    /\ IF formSchema(formValues) /\ simulationMutation.status # "pending"
       THEN Mutate(formValues)
       ELSE UNCHANGED <<simulationMutation, isLoading>>
    /\ UNCHANGED <<formValues, defaultValues, simulationResults, editableValues,
                   mounted>>
    /\ UNCHANGED cmpVars
    /\ UNCHANGED editVars
    /\ UNCHANGED shellVars
    /\ UNCHANGED homeVars

\* the response arrives: onSuccess stores it, the effect on
\* [simulationResults] updates the editable values, and the re-render
\* re-runs the debounce effect, whose cleanup clears a scheduled timer
SimulationSucceeds ==
    /\ mounted
    /\ simulationMutation.status = "pending"
    /\ \E kpis \in SimulationKpis :
          LET data == [ present |-> TRUE, kpis |-> kpis ]
          IN  /\ simulationResults' = data
              /\ editableValues' = UpdateEditableValues(editableValues, data)
    /\ simulationMutation' = [simulationMutation EXCEPT !.status = "success"]
    /\ isLoading' = FALSE
    /\ ClearSimulationTimer
    /\ UNCHANGED <<formValues, defaultValues, mounted>>
    /\ UNCHANGED cmpVars
    /\ UNCHANGED editVars
    /\ UNCHANGED shellVars
    /\ UNCHANGED homeVars

\* the request fails: onError
SimulationFails ==
    /\ mounted
    /\ simulationMutation.status = "pending"
    /\ simulationMutation' = [simulationMutation EXCEPT !.status = "error"]
    /\ isLoading' = FALSE
    /\ ClearSimulationTimer
    /\ UNCHANGED <<formValues, defaultValues, simulationResults, editableValues,
                   mounted>>
    /\ UNCHANGED cmpVars
    /\ UNCHANGED editVars
    /\ UNCHANGED shellVars
    /\ UNCHANGED homeVars

\* the page unmounts: the cleanups of the debounce effect and of the timer
\* effect both clear the timer the ref names
Unmount ==
    /\ mounted
    /\ mounted' = FALSE
    /\ ClearSimulationTimer
    /\ UNCHANGED <<formValues, defaultValues, simulationMutation, simulationResults,
                   isLoading, editableValues>>
    /\ UNCHANGED cmpVars
    /\ UNCHANGED editVars
    /\ UNCHANGED shellVars
    /\ UNCHANGED homeVars

----------------------------------------------------------------------------
(***************************************************************************)
(* Calculator page: inline editing of the displayed values, scenario save  *)

EditableFields == {"monthlyPension", "finalPayout", "totalCosts", "effectiveReturn"}

\* the field edited here: the rate, the one with a check of its own
EditedFields == {"effectiveReturn"}

\* a text is a sequence of characters
DigitChars == <<"0", "1", "2", "3", "4", "5", "6", "7", "8", "9">>

IsDigit(c) == \E d \in 1..10 : DigitChars[d] = c

DigitValue(c) == (CHOOSE d \in 1..10 : DigitChars[d] = c) - 1

\* the first index from i on that holds no digit
RECURSIVE DigitsEnd(_, _)
DigitsEnd(text, i) ==
    IF i <= Len(text) /\ IsDigit(text[i]) THEN DigitsEnd(text, i + 1) ELSE i

\* the number the digits text[i..j-1] spell
RECURSIVE DigitsValue(_, _, _)
DigitsValue(text, i, j) ==
    IF j <= i THEN 0 ELSE DigitsValue(text, i, j - 1) * 10 + DigitValue(text[j - 1])

\* 10 to the power n
RECURSIVE TenTo(_)
TenTo(n) == IF n = 0 THEN 1 ELSE 10 * TenTo(n - 1)

\* parseFloat: the longest prefix that reads [sign] digits [. digits], NaN
\* when it holds no digit; the number is kept in thousandths
parseFloat(text) ==
    LET signed == Len(text) > 0 /\ text[1] \in {"-", "+"}
        start == IF signed THEN 2 ELSE 1
        intEnd == DigitsEnd(text, start)
        hasPoint == intEnd <= Len(text) /\ text[intEnd] = "."
        fracStart == intEnd + 1
        fracEnd == IF hasPoint THEN DigitsEnd(text, fracStart) ELSE fracStart
        fracKept == IF fracEnd - fracStart > 3 THEN fracStart + 3 ELSE fracEnd
        magnitude == DigitsValue(text, start, intEnd) * 1000
                     + DigitsValue(text, fracStart, fracKept)
                       * TenTo(3 - (fracKept - fracStart))
    IN  [ nan |-> intEnd = start /\ fracEnd = fracStart,
          value |-> IF signed /\ text[1] = "-" THEN 0 - magnitude ELSE magnitude ]

\* the decimal digits of a natural number
RECURSIVE DigitsOf(_)
DigitsOf(n) ==
    IF n < 10 THEN <<DigitChars[n + 1]>>
    ELSE Append(DigitsOf(n \div 10), DigitChars[(n % 10) + 1])

\* the digits of a fraction given in thousandths, without trailing zeros
FractionDigits(f) ==
    IF f % 100 = 0 THEN <<DigitChars[(f \div 100) + 1]>>
    ELSE IF f % 10 = 0
         THEN <<DigitChars[(f \div 100) + 1], DigitChars[((f \div 10) % 10) + 1]>>
         ELSE <<DigitChars[(f \div 100) + 1], DigitChars[((f \div 10) % 10) + 1],
                DigitChars[(f % 10) + 1]>>

\* Number.prototype.toString of a number given in thousandths
toString(thousandths) ==
    LET magnitude == IF thousandths < 0 THEN 0 - thousandths ELSE thousandths
        digits == DigitsOf(magnitude \div 1000)
                  \o (IF magnitude % 1000 = 0 THEN <<>>
                      ELSE <<".">> \o FractionDigits(magnitude % 1000))
    IN  IF thousandths < 0 THEN <<"-">> \o digits ELSE digits

\* editableValues holds the rate in thousandths and the other fields in
\* whole euros
InThousandths(field, value) == IF field = "effectiveReturn" THEN value ELSE value * 1000

FromThousandths(field, thousandths) ==
    IF field = "effectiveReturn" THEN thousandths ELSE thousandths \div 1000

\* what reaches handleEditValueChange from the number input: a cleared or
\* unreadable entry arrives as '', the rate field also takes a fraction
TypedTexts(field) ==
    IF field = "effectiveReturn"
    THEN { <<>>, <<"-", "5">>, <<"2">>, <<"0", ".", "5">> }
    ELSE { <<>>, <<"-", "5">>, <<"2">> }

InitialTempEditValues == [ f \in EditableFields |-> <<>> ]

\* useState({}) of validationErrors: a field without a message reads as ''
InitialValidationErrors == [ f \in EditableFields |-> "" ]

\* each state update renders the page again, and the cleanup of the
\* debounce effect clears the timer
HandleEditStart ==
    \E field \in EditedFields :
        LET currentValue == OrElse(editableValues[field].value,
                                   editableValues[field].originalValue)
        IN  /\ mounted
            /\ ~editableValues[field].isEditing
            /\ tempEditValues' = [tempEditValues EXCEPT
                                    ![field] = toString(InThousandths(field, currentValue))]
            /\ editableValues' = [editableValues EXCEPT ![field].isEditing = TRUE]
            /\ validationErrors' = [validationErrors EXCEPT ![field] = ""]
            /\ ClearSimulationTimer
            /\ UNCHANGED <<formValues, defaultValues, simulationMutation,
                           simulationResults, isLoading, mounted>>
            /\ UNCHANGED <<pendingEditSaves, saveScenarioMutation>>
            /\ UNCHANGED cmpVars
            /\ UNCHANGED homeVars
            /\ UNCHANGED shellVars

HandleEditCancel ==
    \E field \in EditedFields :
        /\ mounted
        /\ editableValues[field].isEditing
        /\ editableValues' = [editableValues EXCEPT ![field].isEditing = FALSE]
        /\ tempEditValues' = [tempEditValues EXCEPT ![field] = <<>>]
        /\ ClearSimulationTimer
        /\ UNCHANGED <<formValues, defaultValues, simulationMutation,
                       simulationResults, isLoading, mounted>>
        /\ UNCHANGED <<validationErrors, pendingEditSaves, saveScenarioMutation>>
        /\ UNCHANGED cmpVars
        /\ UNCHANGED homeVars
        /\ UNCHANGED shellVars

HandleEditValueChange ==
    \E field \in EditedFields :
        \E value \in TypedTexts(field) :
            /\ mounted
            /\ editableValues[field].isEditing
            /\ tempEditValues' = [tempEditValues EXCEPT ![field] = value]
            /\ ClearSimulationTimer
            /\ UNCHANGED <<formValues, defaultValues, simulationMutation,
                           simulationResults, isLoading, editableValues, mounted>>
            /\ UNCHANGED <<validationErrors, pendingEditSaves, saveScenarioMutation>>
            /\ UNCHANGED cmpVars
            /\ UNCHANGED homeVars
            /\ UNCHANGED shellVars

\* a validation without the check of the rate's range
EditRejection_NoRangeCheck(field, parsed) ==
    IF parsed.nan THEN "Bitte geben Sie eine gueltige Zahl ein"
    ELSE IF parsed.value < 0 THEN "Wert muss positiv sein"
    ELSE ""

\* the message handleEditSave rejects an entry with, '' for an accepted one
EditRejection(field, parsed) ==
    IF parsed.nan THEN "Bitte geben Sie eine gueltige Zahl ein"
    ELSE IF parsed.value < 0 THEN "Wert muss positiv sein"
    ELSE IF field = "effectiveReturn" /\ (parsed.value < 0 \/ parsed.value > 1000)
         THEN "Rendite muss zwischen 0% und 100% liegen"
         ELSE ""

\* how many handleEditSave calls may wait for their 500 ms at a time
MaxPendingEditSaves == 1

\* handleEditSave up to its await: a rejected entry leaves a message and
\* returns, an accepted one is stored and isLoading set
HandleEditSave ==
    \E field \in EditedFields :
        LET newValue == parseFloat(tempEditValues[field])
        IN  /\ mounted
            /\ editableValues[field].isEditing
            /\ ClearSimulationTimer
            /\ IF EditRejection(field, newValue) # ""
               THEN /\ validationErrors' = [validationErrors EXCEPT
                                              ![field] = EditRejection(field, newValue)]
                    /\ UNCHANGED <<isLoading, editableValues, pendingEditSaves>>
               ELSE /\ Len(pendingEditSaves) < MaxPendingEditSaves
                    /\ isLoading' = TRUE
                    /\ editableValues' = [editableValues EXCEPT
                                            ![field].isEditing = FALSE,
                                            ![field].value =
                                                FromThousandths(field, newValue.value)]
                    /\ pendingEditSaves' = Append(pendingEditSaves, field)
                    /\ UNCHANGED validationErrors
            /\ UNCHANGED <<formValues, defaultValues, simulationMutation,
                           simulationResults, mounted>>
            /\ UNCHANGED <<tempEditValues, saveScenarioMutation>>
            /\ UNCHANGED cmpVars
            /\ UNCHANGED homeVars
            /\ UNCHANGED shellVars

\* the 500 ms of a handleEditSave call are over: the rest of its try block
\* and its finally block run
EditSaveCompletes ==
    /\ mounted
    /\ pendingEditSaves # <<>>
    /\ validationErrors' = [validationErrors EXCEPT ![Head(pendingEditSaves)] = ""]
    /\ isLoading' = FALSE
    /\ pendingEditSaves' = Tail(pendingEditSaves)
    /\ ClearSimulationTimer
    /\ UNCHANGED <<formValues, defaultValues, simulationMutation,
                   simulationResults, editableValues, mounted>>
    /\ UNCHANGED <<tempEditValues, saveScenarioMutation>>
    /\ UNCHANGED cmpVars
    /\ UNCHANGED homeVars
    /\ UNCHANGED shellVars

\* the save-scenario button, disabled while saving or loading
SaveScenario ==
    /\ mounted
    /\ ~(saveScenarioMutation = "pending" \/ isLoading)
    /\ isLoading' = TRUE
    /\ saveScenarioMutation' = "pending"
    /\ ClearSimulationTimer
    /\ UNCHANGED <<formValues, defaultValues, simulationMutation,
                   simulationResults, editableValues, mounted>>
    /\ UNCHANGED <<tempEditValues, validationErrors, pendingEditSaves>>
    /\ UNCHANGED cmpVars
    /\ UNCHANGED homeVars
    /\ UNCHANGED shellVars

\* onSuccess and onError of saveScenarioMutation both clear isLoading
SaveScenarioSettles ==
    \E outcome \in {"success", "error"} :
        /\ mounted
        /\ saveScenarioMutation = "pending"
        /\ saveScenarioMutation' = outcome
        /\ isLoading' = FALSE
        /\ ClearSimulationTimer
        /\ UNCHANGED <<formValues, defaultValues, simulationMutation,
                       simulationResults, editableValues, mounted>>
        /\ UNCHANGED <<tempEditValues, validationErrors, pendingEditSaves>>
        /\ UNCHANGED cmpVars
        /\ UNCHANGED homeVars
        /\ UNCHANGED shellVars

(***************************************************************************)
(* Layout: theme, scroll button, onboarding wizard (PremiumLayout.tsx)     *)

Themes == {"light", "dark"}

\* what earlier visits left in localStorage: the saved theme ("none" for a
\* missing key) and whether onboarding was completed
StorageStates ==
    [ theme : Themes \cup {"none"}, onboardingCompleted : BOOLEAN ]

\* window.scrollY at a scroll event
ScrollPositions == {0, 400, 401}

\* the layout before the page is loaded
InitialLayout ==
    [ mounted |-> FALSE, theme |-> "light", showScrollTop |-> FALSE,
      showOnboarding |-> FALSE, isCompleted |-> FALSE ]

\* one call of initializeOnboarding: the isCompleted of the render whose
\* effect made the call, and whether loadFromStorage has resolved
InitializeOnboardingCall(isCompleted) == [ isCompleted |-> isCompleted, loaded |-> FALSE ]

\* the page loads: the store is created (holding either its default or what
\* storage holds), the layout renders and its effects run: the theme is
\* taken from storage or from the system, initializeOnboarding is called
PageLoads ==
    \E stored \in StorageStates, systemTheme \in Themes, hydrated \in BOOLEAN :
        LET isCompleted == hydrated /\ stored.onboardingCompleted
        IN  /\ ~layout.mounted
            /\ localStorage' = stored
            /\ onboardingStore' = [ isCompleted |-> isCompleted ]
            /\ layout' = [ mounted |-> TRUE,
                           theme |-> IF stored.theme # "none" THEN stored.theme
                                     ELSE systemTheme,
                           showScrollTop |-> FALSE,
                           showOnboarding |-> FALSE,
                           isCompleted |-> isCompleted ]
            /\ initializeOnboarding' = <<InitializeOnboardingCall(isCompleted)>>
            /\ UNCHANGED pageVars
            /\ UNCHANGED routerVars
            /\ UNCHANGED cookieVars

\* await loadFromStorage(): the store takes what storage holds
LoadFromStorageResolves ==
    \E i \in DOMAIN initializeOnboarding :
        /\ ~initializeOnboarding[i].loaded
        /\ onboardingStore' = [ isCompleted |-> localStorage.onboardingCompleted ]
        /\ initializeOnboarding' = [initializeOnboarding EXCEPT ![i].loaded = TRUE]
        /\ UNCHANGED <<layout, localStorage>>
        /\ UNCHANGED pageVars
        /\ UNCHANGED routerVars
        /\ UNCHANGED cookieVars

\* a sequence without its i-th element
RemoveAt(seq, i) == SubSeq(seq, 1, i - 1) \o SubSeq(seq, i + 1, Len(seq))

\* initializeOnboarding after its await: if (!isCompleted) with the
\* isCompleted of the render that made the call
InitializeOnboardingContinues ==
    \E i \in DOMAIN initializeOnboarding :
        /\ initializeOnboarding[i].loaded
        /\ layout' = IF ~initializeOnboarding[i].isCompleted
                     THEN [layout EXCEPT !.showOnboarding = TRUE]
                     ELSE layout
        /\ initializeOnboarding' = RemoveAt(initializeOnboarding, i)
        /\ UNCHANGED <<onboardingStore, localStorage>>
        /\ UNCHANGED pageVars
        /\ UNCHANGED routerVars
        /\ UNCHANGED cookieVars

\* the store's isCompleted changed: the layout renders with the new value
\* and the effect, which depends on it, calls initializeOnboarding again
LayoutRerenders ==
    /\ layout.mounted
    /\ layout.isCompleted # onboardingStore.isCompleted
    /\ layout' = [layout EXCEPT !.isCompleted = onboardingStore.isCompleted]
    /\ initializeOnboarding' =
           Append(initializeOnboarding, InitializeOnboardingCall(onboardingStore.isCompleted))
    /\ UNCHANGED <<onboardingStore, localStorage>>
    /\ UNCHANGED pageVars
    /\ UNCHANGED routerVars
    /\ UNCHANGED cookieVars

\* the settings button, rendered when isCompleted
PressSettingsButton ==
    /\ layout.mounted
    /\ layout.isCompleted
    /\ layout' = [layout EXCEPT !.showOnboarding = TRUE]
    /\ UNCHANGED <<onboardingStore, localStorage, initializeOnboarding>>
    /\ UNCHANGED pageVars
    /\ UNCHANGED routerVars
    /\ UNCHANGED cookieVars

\* onClose of the wizard
CloseOnboarding ==
    /\ layout.mounted
    /\ layout.showOnboarding
    /\ layout' = [layout EXCEPT !.showOnboarding = FALSE]
    /\ UNCHANGED <<onboardingStore, localStorage, initializeOnboarding>>
    /\ UNCHANGED pageVars
    /\ UNCHANGED routerVars
    /\ UNCHANGED cookieVars

handleThemeChange ==
    \E newTheme \in Themes :
        /\ layout.mounted
        /\ layout' = [layout EXCEPT !.theme = newTheme]
        /\ localStorage' = [localStorage EXCEPT !.theme = newTheme]
        /\ UNCHANGED <<onboardingStore, initializeOnboarding>>
        /\ UNCHANGED pageVars
        /\ UNCHANGED routerVars
        /\ UNCHANGED cookieVars

handleScroll ==
    \E scrollY \in ScrollPositions :
        /\ layout.mounted
        /\ layout' = [layout EXCEPT !.showScrollTop = (scrollY > 400)]
        /\ UNCHANGED <<onboardingStore, localStorage, initializeOnboarding>>
        /\ UNCHANGED pageVars
        /\ UNCHANGED routerVars
        /\ UNCHANGED cookieVars

(***************************************************************************)
(* Router location under a base path (useGitHubPagesLocation)              *)

\* paths and query strings are sequences of characters
RootPath == <<"/">>

\* what getRuntimeBase returns: "/", "/a/" or "/a/b/"
RuntimeBases == { RootPath, <<"/", "a", "/">>, <<"/", "a", "/", "b", "/">> }

\* the routes navigate is called with: "/", "/x", "/a", "/a/x"
Routes == { RootPath, <<"/", "x">>, <<"/", "a">>, <<"/", "a", "/", "x">> }

\* location.search of a loaded URL: none, "?/x", "?/a/x", "?q"
LoadedSearches ==
    { <<>>, <<"?", "/", "x">>, <<"?", "/", "a", "/", "x">>, <<"?", "q">> }

StartsWith(text, prefix) ==
    /\ Len(text) >= Len(prefix)
    /\ SubSeq(text, 1, Len(prefix)) = prefix

\* text.slice(n)
Slice(text, n) == SubSeq(text, n + 1, Len(text))

\* runtimeBase.replace(/\/$/, "")
StripTrailingSlash(text) ==
    IF Len(text) > 0 /\ text[Len(text)] = "/"
    THEN SubSeq(text, 1, Len(text) - 1)
    ELSE text

\* search.match(/^\/?(\/.*)/): an optional "/" and then a group that
\* starts with "/"; the group is empty when there is no match
SearchRouteMatch(search) ==
    IF StartsWith(search, <<"/", "/">>) THEN Slice(search, 1)
    ELSE IF StartsWith(search, <<"/">>) THEN search
    ELSE <<>>

\* the base is taken off a path: "/a/" -> "/", "/a/x" -> "/x", "/a" -> "/"
StripBase(base, path) ==
    LET normalizedBase == StripTrailingSlash(base)
    IN  IF base = RootPath \/ base = <<>> THEN path
        ELSE IF path = normalizedBase \/ path = normalizedBase \o <<"/">> THEN RootPath
        ELSE IF StartsWith(path, normalizedBase \o <<"/">>)
             THEN Slice(path, Len(normalizedBase))
             ELSE path

\* the location the initial state and the popstate handler compute from
\* window.location
LocationOf(base, url) ==
    LET searchRouteMatch == SearchRouteMatch(url.search)
        path == IF searchRouteMatch # <<>> THEN searchRouteMatch ELSE url.pathname
    IN  StripBase(base, path)

\* the URLs a page is opened at under a base
LoadedUrls(base) ==
    [ pathname : { base, StripTrailingSlash(base) \o <<"/", "x">>, base \o <<"x">> }
                 \cup (IF base = RootPath THEN {} ELSE {StripTrailingSlash(base)}),
      search : LoadedSearches ]

\* how many entries the session history holds
MaxHistory == 2

\* window.location
Location == browserHistory.entries[browserHistory.index]

\* the app is opened at a URL: the hook's initial state
RouterLoads ==
    \E base \in RuntimeBases :
        \E url \in LoadedUrls(base) :
            /\ browserHistory.index = 0
            /\ runtimeBase' = base
            /\ browserHistory' = [ entries |-> <<url>>, index |-> 1 ]
            /\ loc' = LocationOf(base, url)
            /\ UNCHANGED pageVars
            /\ UNCHANGED layoutVars
            /\ UNCHANGED cookieVars

\* a navigate that puts the base in front as it is, trailing slash included
navigate_KeepSlash(to, replace) ==
    LET prefix == IF runtimeBase # RootPath /\ runtimeBase # <<>>
                  THEN runtimeBase ELSE <<>>
        fullPath == [ pathname |-> prefix \o to, search |-> <<>> ]
        kept == SubSeq(browserHistory.entries, 1, browserHistory.index)
    IN  /\ browserHistory.index > 0
        /\ IF replace
           THEN browserHistory' = [browserHistory EXCEPT
                                     !.entries[browserHistory.index] = fullPath]
           ELSE /\ browserHistory.index < MaxHistory
                /\ browserHistory' = [ entries |-> Append(kept, fullPath),
                                       index |-> browserHistory.index + 1 ]
        /\ loc' = to
        /\ UNCHANGED runtimeBase
        /\ UNCHANGED pageVars
        /\ UNCHANGED layoutVars
        /\ UNCHANGED cookieVars

\* navigate(to, options): the base, without its trailing slash, is put in
\* front; pushState drops the entries after the current one
navigate(to, replace) ==
    LET prefix == IF runtimeBase # RootPath /\ runtimeBase # <<>>
                  THEN StripTrailingSlash(runtimeBase) ELSE <<>>
        fullPath == [ pathname |-> prefix \o to, search |-> <<>> ]
        kept == SubSeq(browserHistory.entries, 1, browserHistory.index)
    IN  /\ browserHistory.index > 0
        /\ IF replace
           THEN browserHistory' = [browserHistory EXCEPT
                                     !.entries[browserHistory.index] = fullPath]
           ELSE /\ browserHistory.index < MaxHistory
                /\ browserHistory' = [ entries |-> Append(kept, fullPath),
                                       index |-> browserHistory.index + 1 ]
        /\ loc' = to
        /\ UNCHANGED runtimeBase
        /\ UNCHANGED pageVars
        /\ UNCHANGED layoutVars
        /\ UNCHANGED cookieVars

Navigates == \E to \in Routes, replace \in BOOLEAN : navigate(to, replace)

\* the browser's back or forward button: the URL changes and the popstate
\* handler computes the location
Popstate ==
    \E index \in {browserHistory.index - 1, browserHistory.index + 1} :
        /\ browserHistory.index > 0
        /\ index \in DOMAIN browserHistory.entries
        /\ browserHistory' = [browserHistory EXCEPT !.index = index]
        /\ loc' = LocationOf(runtimeBase, browserHistory.entries[index])
        /\ UNCHANGED runtimeBase
        /\ UNCHANGED pageVars
        /\ UNCHANGED layoutVars
        /\ UNCHANGED cookieVars

(***************************************************************************)
(* Cookie banner (CookieBanner.tsx)                                        *)

\* a consent without its timestamp; necessary is always true
Consents == [ analytics : BOOLEAN, marketing : BOOLEAN ]

\* cookieManager.getConsent() returning null
NoConsent == [ present |-> FALSE, analytics |-> FALSE, marketing |-> FALSE ]

Stored(consent) ==
    [ present |-> TRUE, analytics |-> consent.analytics, marketing |-> consent.marketing ]

\* what cookieManager holds when the banner mounts
ExistingConsents == {NoConsent} \cup { Stored(c) : c \in Consents }

ConsentCategories == {"analytics", "marketing"}

\* the useState values of the banner before its mount effect
InitialCookieBanner ==
    [ mounted |-> FALSE, isVisible |-> FALSE, showSettings |-> FALSE,
      consent |-> [ analytics |-> FALSE, marketing |-> FALSE ] ]

\* cookieManager.acceptAll()
AcceptAllConsent == [ analytics |-> TRUE, marketing |-> TRUE ]

\* cookieManager.acceptNecessaryOnly()
NecessaryOnlyConsent == [ analytics |-> FALSE, marketing |-> FALSE ]

\* cookieManager.setConsent({ [category]: value }): the category is set in
\* what is stored, the others keep their values
SetConsentCategory(stored, category, value) ==
    [ present |-> TRUE,
      analytics |-> IF category = "analytics" THEN value ELSE stored.analytics,
      marketing |-> IF category = "marketing" THEN value ELSE stored.marketing ]

\* how many delayed writes may be scheduled at a time
MaxPendingWrites == 2

\* the banner mounts: it shows when there is no consent and it was not
\* shown before, and takes over an existing consent
BannerMounts ==
    \E existingConsent \in ExistingConsents, bannerShown \in BOOLEAN :
        /\ ~cookieBanner.mounted
        /\ chosenConsent = NoConsent
        /\ storedConsent' = existingConsent
        /\ cookieBanner' =
               [ mounted |-> TRUE,
                 isVisible |-> ~existingConsent.present /\ ~bannerShown,
                 showSettings |-> FALSE,
                 consent |-> IF existingConsent.present
                             THEN [ analytics |-> existingConsent.analytics,
                                    marketing |-> existingConsent.marketing ]
                             ELSE cookieBanner.consent ]
        /\ UNCHANGED <<pendingConsentWrites, chosenConsent>>
        /\ UNCHANGED pageVars
        /\ UNCHANGED layoutVars
        /\ UNCHANGED routerVars

handleAcceptAll ==
    /\ cookieBanner.isVisible
    /\ ~cookieBanner.showSettings
    /\ storedConsent' = Stored(AcceptAllConsent)
    /\ chosenConsent' = Stored(AcceptAllConsent)
    /\ cookieBanner' = [cookieBanner EXCEPT !.isVisible = FALSE]
    /\ UNCHANGED pendingConsentWrites
    /\ UNCHANGED pageVars
    /\ UNCHANGED layoutVars
    /\ UNCHANGED routerVars

handleAcceptNecessary ==
    /\ cookieBanner.isVisible
    /\ ~cookieBanner.showSettings
    /\ storedConsent' = Stored(NecessaryOnlyConsent)
    /\ chosenConsent' = Stored(NecessaryOnlyConsent)
    /\ cookieBanner' = [cookieBanner EXCEPT !.isVisible = FALSE]
    /\ UNCHANGED pendingConsentWrites
    /\ UNCHANGED pageVars
    /\ UNCHANGED layoutVars
    /\ UNCHANGED routerVars

handleSaveSettings ==
    /\ cookieBanner.isVisible
    /\ cookieBanner.showSettings
    /\ storedConsent' = Stored(cookieBanner.consent)
    /\ chosenConsent' = Stored(cookieBanner.consent)
    /\ cookieBanner' = [cookieBanner EXCEPT !.isVisible = FALSE, !.showSettings = FALSE]
    /\ UNCHANGED pendingConsentWrites
    /\ UNCHANGED pageVars
    /\ UNCHANGED layoutVars
    /\ UNCHANGED routerVars

\* the X button: the banner closes without a choice
handleClose ==
    /\ cookieBanner.isVisible
    /\ cookieBanner' = [cookieBanner EXCEPT !.isVisible = FALSE]
    /\ UNCHANGED <<storedConsent, pendingConsentWrites, chosenConsent>>
    /\ UNCHANGED pageVars
    /\ UNCHANGED layoutVars
    /\ UNCHANGED routerVars

\* the "Anpassen" and "Zurueck" buttons
SetShowSettings ==
    \E show \in BOOLEAN :
        /\ cookieBanner.isVisible
        /\ cookieBanner.showSettings # show
        /\ cookieBanner' = [cookieBanner EXCEPT !.showSettings = show]
        /\ UNCHANGED <<storedConsent, pendingConsentWrites, chosenConsent>>
        /\ UNCHANGED pageVars
        /\ UNCHANGED layoutVars
        /\ UNCHANGED routerVars

\* a category switch: updateConsent, and a write of the category scheduled
\* 100 ms later
OnCheckedChange ==
    \E category \in ConsentCategories :
        LET checked == ~cookieBanner.consent[category]
        IN  /\ cookieBanner.isVisible
            /\ cookieBanner.showSettings
            /\ Len(pendingConsentWrites) < MaxPendingWrites
            /\ cookieBanner' = [cookieBanner EXCEPT !.consent[category] = checked]
            /\ pendingConsentWrites' =
                   Append(pendingConsentWrites, [ category |-> category, value |-> checked ])
            /\ UNCHANGED <<storedConsent, chosenConsent>>
            /\ UNCHANGED pageVars
            /\ UNCHANGED layoutVars
            /\ UNCHANGED routerVars

\* the 100 ms of the oldest scheduled write are over
ConsentWriteFires ==
    /\ pendingConsentWrites # <<>>
    /\ storedConsent' = SetConsentCategory(storedConsent,
                                           Head(pendingConsentWrites).category,
                                           Head(pendingConsentWrites).value)
    /\ pendingConsentWrites' = Tail(pendingConsentWrites)
    /\ UNCHANGED <<cookieBanner, chosenConsent>>
    /\ UNCHANGED pageVars
    /\ UNCHANGED layoutVars
    /\ UNCHANGED routerVars

\* the banner unmounts: the cleanup clears every scheduled write
BannerUnmounts ==
    /\ cookieBanner.mounted
    /\ cookieBanner' = [cookieBanner EXCEPT !.mounted = FALSE, !.isVisible = FALSE]
    /\ pendingConsentWrites' = <<>>
    /\ UNCHANGED <<storedConsent, chosenConsent>>
    /\ UNCHANGED pageVars
    /\ UNCHANGED layoutVars
    /\ UNCHANGED routerVars

(* Specifications                                                          *)

Init ==
    /\ inputs = DefaultInputs
    /\ language = "de"
    /\ comparison = Comparison(DefaultInputs)
    /\ fvCall = [ monthlyPayment |-> 0, annualRate |-> 0, years |-> 0 ]
    /\ fvOutcome = [ kind |-> "none", value |-> 0, logged |-> "" ]
    /\ fundsSettings = DefaultFundsSettings
    /\ formValues = FormDefaults
    /\ defaultValues = FormDefaults
    /\ simulationTimer = FALSE
    /\ scheduledTimers = 0
    /\ mounted = TRUE
    /\ simulationMutation = [ status |-> "pending", variables |-> FormDefaults ]
    /\ simulationResults = NoSimulationResults
    /\ isLoading = TRUE
    /\ editableValues = InitialEditableValues
    /\ tempEditValues = InitialTempEditValues
    /\ validationErrors = InitialValidationErrors
    /\ pendingEditSaves = <<>>
    /\ saveScenarioMutation = "idle"
    /\ layout = InitialLayout
    /\ onboardingStore = [ isCompleted |-> FALSE ]
    /\ localStorage = [ theme |-> "none", onboardingCompleted |-> FALSE ]
    /\ initializeOnboarding = <<>>
    /\ runtimeBase = RootPath
    /\ loc = RootPath
    /\ browserHistory = [ entries |-> <<>>, index |-> 0 ]
    /\ cookieBanner = InitialCookieBanner
    /\ storedConsent = NoConsent
    /\ pendingConsentWrites = <<>>
    /\ chosenConsent = NoConsent

NextCmp ==
    \/ ChangeCurrentAge
    \/ ChangeMonthlyContribution
    \/ SlideMonthlyContribution
    \/ ChangeCurrentAssets
    \/ ChangeRetirementAge
    \/ ChangeLanguage

NextHome ==
    \/ CallCalculateFutureValue
    \/ ChangeFundsMonthly
    \/ ChangeFundsTermYears
    \/ SelectFundsPreset
    \/ ToggleCustomReturn
    \/ ChangeCustomReturn
    \/ ResetAllSettings

NextSim ==
    \/ ChangeFormMonthlyContribution
    \/ SelectPayoutStartAge
    \/ SelectPayoutEndAge
    \/ PrefillFromOnboarding
    \/ ResetAllSettings
    \/ SimulationTimerFires
    \/ PageRerenders
    \/ SimulationSucceeds
    \/ SimulationFails
    \/ Unmount

NextEdit ==
    \/ HandleEditStart
    \/ HandleEditValueChange
    \/ HandleEditCancel
    \/ HandleEditSave
    \/ EditSaveCompletes
    \/ SaveScenario
    \/ SaveScenarioSettles
    \/ ChangeFormMonthlyContribution
    \/ SimulationTimerFires
    \/ SimulationSucceeds
    \/ SimulationFails

NextLayout ==
    \/ PageLoads
    \/ LoadFromStorageResolves
    \/ InitializeOnboardingContinues
    \/ LayoutRerenders
    \/ PressSettingsButton
    \/ CloseOnboarding
    \/ handleThemeChange
    \/ handleScroll

NextRouter ==
    \/ RouterLoads
    \/ Navigates
    \/ Popstate

NextCookie ==
    \/ BannerMounts
    \/ handleAcceptAll
    \/ handleAcceptNecessary
    \/ handleSaveSettings
    \/ handleClose
    \/ SetShowSettings
    \/ OnCheckedChange
    \/ ConsentWriteFires
    \/ BannerUnmounts

SpecCmp == Init /\ [][NextCmp]_vars

SpecHome == Init /\ [][NextHome]_vars

SpecSim == Init /\ [][NextSim]_vars

\* the live calculation left to itself: the user changes form fields, no
\* other state of the page changes, every scheduled timer fires and every
\* request completes
NextLive ==
    \/ ChangeFormMonthlyContribution
    \/ SelectPayoutStartAge
    \/ SelectPayoutEndAge
    \/ SimulationTimerFires
    \/ SimulationSucceeds
    \/ SimulationFails

SpecEdit == Init /\ [][NextEdit]_vars

SpecLayout == Init /\ [][NextLayout]_vars

SpecRouter == Init /\ [][NextRouter]_vars

SpecCookie == Init /\ [][NextCookie]_vars

SpecLive ==
    /\ Init
    /\ [][NextLive]_vars
    /\ WF_vars(SimulationTimerFires)
    /\ WF_vars(SimulationSucceeds \/ SimulationFails)

----------------------------------------------------------------------------
(* Properties                                                              *)

years == inputs.retirementAge - inputs.currentAge

VehicleNames == {"debeka", "etf", "klassisch"}

\* a vehicle's annual return after costs and before any tax, in millionths
GrossReturn(v) ==
    CASE v = "debeka" -> debekaGrowthRate - debekaCosts
      [] v = "etf" -> etfGrowthRate - etfCosts
      [] v = "klassisch" -> klassischGrowthRate - klassischCosts

\* the annual rate a vehicle's result reports, back in millionths
ReportedRate(v) == comparison[v].netReturn \div 100

\* the spec's closed form: lump sum and contributions both compounded
\* monthly at annualRate / 12 over years * 12 months (money in cents)
ClosedFormFutureValue(initialCapital, monthlyContribution, annualRate, yrs) ==
    LET r == DivInt(annualRate, 12)
        n == yrs * 12
    IN  MulFix(initialCapital, Pow(Scale + r, n))
        + MulAnnuity(monthlyContribution, AnnuityFactor(r, n))

ValidComparisonInputs ==
    /\ inputs.monthlyContribution >= 0
    /\ inputs.currentAssets >= 0
    /\ inputs.retirementAge > inputs.currentAge

\* C1: for initialCapital >= 0, monthlyContribution >= 0, a positive rate and
\* 0 <= years <= 100 every vehicle's finalCapital equals
\* initialCapital*(1+r)^n + monthlyContribution*(((1+r)^n - 1)/r), r = rate/12,
\* n = years*12 (to within a thousandth plus one cent of fixed-point error).
C1_FinalCapitalIsClosedForm ==
    (/\ inputs.monthlyContribution >= 0
     /\ inputs.currentAssets >= 0
     /\ years >= 0 /\ years <= maxInvestmentYears)
    => \A v \in VehicleNames :
          LET expected == ClosedFormFutureValue(inputs.currentAssets * Cents,
                                                inputs.monthlyContribution * Cents,
                                                ReportedRate(v), years)
          IN  Abs(comparison[v].finalCapital - expected) <= (expected \div 1000) + 1

FvCalled == fvOutcome.kind # "none"

FvPreconditionViolated ==
    \/ fvCall.monthlyPayment < 0
    \/ fvCall.annualRate < 0
    \/ fvCall.years < 0
    \/ fvCall.years > maxInvestmentYears

\* C2: with annualRate = 0 the future value is exactly
\* initialCapital + monthlyContribution * years * 12 for every
\* monthlyContribution >= 0 and years >= 0 (the primitive takes no lump sum,
\* so initialCapital is 0 here).
C2_ZeroRateDegeneracy ==
    (/\ FvCalled
     /\ fvCall.annualRate = 0
     /\ fvCall.monthlyPayment >= 0
     /\ fvCall.years >= 0)
    => /\ fvOutcome.kind = "return"
       /\ fvOutcome.value = fvCall.monthlyPayment * Cents * fvCall.years * 12

\* C3: a precondition violation of the compounding primitive reaches the
\* caller as an error outcome, never as an ordinary numeric result.
C3_ViolationIsAnError ==
    (FvCalled /\ FvPreconditionViolated) => fvOutcome.kind = "error"

\* C4: with retirementAge <= currentAge, or a horizon above 100 years, the
\* comparison fails with InvalidRange and carries no projection result.
C4_RangeRejection ==
    (inputs.retirementAge <= inputs.currentAge \/ years > maxInvestmentYears)
    => comparison = [ error |-> "InvalidRange" ]

MaxPension ==
    CHOOSE p \in {comparison[v].monthlyPension : v \in VehicleNames} :
        \A v \in VehicleNames : p >= comparison[v].monthlyPension

FirstListedAtMax ==
    Vehicles[CHOOSE i \in 1..Len(Vehicles) :
                /\ comparison[Vehicles[i]].monthlyPension = MaxPension
                /\ \A j \in 1..(i - 1) :
                      comparison[Vehicles[j]].monthlyPension # MaxPension]

\* C6: among vehicles sharing the maximum net monthly pension the winner is
\* the first in listing order debeka, etf, klassisch.
C6_TieBreakFirstListed == winner = FirstListedAtMax

\* C7: when taxAdvantage is negative, neither the tax-advantage alert nor
\* the call-to-action text shows a negative amount: each shows zero or is
\* omitted.
C7_NoNegativeSavingsShown ==
    comparison.taxAdvantage < 0
    => /\ (TaxAdvantageAlert.shown
             => (~TaxAdvantageAlert.amount.negative /\ TaxAdvantageAlert.amount.euros = 0))
       /\ (CtaSection.shown
             => (~CtaSection.amount.negative /\ CtaSection.amount.euros = 0))

MaxOf(a, b) == IF a >= b THEN a ELSE b

MinOf(a, b) == IF a <= b THEN a ELSE b

\* C8 as stated: taxAdvantage is the larger of the ETF's and Debeka's
\* totalTaxPaid minus the smaller, hence never negative.
C8_TaxAdvantageHigherMinusLower ==
    /\ comparison.taxAdvantage =
          MaxOf(comparison.etf.totalTax, comparison.debeka.totalTax)
          - MinOf(comparison.etf.totalTax, comparison.debeka.totalTax)
    /\ comparison.taxAdvantage >= 0

\* C8 as amended: taxAdvantage is the ETF's totalTaxPaid minus Debeka's,
\* with its sign; it is non-negative exactly when the ETF pays at least as
\* much tax as Debeka.
C8_TaxAdvantageSigned ==
    /\ comparison.taxAdvantage = comparison.etf.totalTax - comparison.debeka.totalTax
    /\ (comparison.taxAdvantage >= 0
          <=> comparison.etf.totalTax >= comparison.debeka.totalTax)

C8_Witness ==
    /\ comparison.etf.totalTax < comparison.debeka.totalTax
    /\ comparison.taxAdvantage < 0
    /\ ValidComparisonInputs

\* the rate a vehicle really compounded at agrees with finalCapital
CompoundedAt(v, rate) ==
    comparison[v].finalCapital =
        VehicleFutureValue(inputs.currentAssets * Cents,
                           inputs.monthlyContribution * Cents,
                           rate, DivInt(rate, 12), years, years * 12)

\* C9: for valid inputs every vehicle's net monthly pension is at most its
\* gross monthly pension and the rate it compounds at is at most its
\* after-cost return: tax never increases a value.
C9_TaxNonNegativity ==
    ValidComparisonInputs
    => \A v \in VehicleNames :
          /\ comparison[v].monthlyPension <= comparison[v].grossMonthlyPension
          /\ ReportedRate(v) <= GrossReturn(v)
          /\ CompoundedAt(v, ReportedRate(v))

C9_Witness ==
    /\ ValidComparisonInputs
    /\ comparison.debeka.monthlyPension < comparison.debeka.grossMonthlyPension
    /\ comparison.klassisch.monthlyPension < comparison.klassisch.grossMonthlyPension
    /\ ReportedRate("etf") < GrossReturn("etf")

AccumulationTaxed(v) == ReportedRate(v) < GrossReturn(v) /\ CompoundedAt(v, ReportedRate(v))

AccumulationUntaxed(v) == ReportedRate(v) = GrossReturn(v) /\ CompoundedAt(v, GrossReturn(v))

\* the Ertragsanteil share of the gross payout, taxed at the personal rate
PayoutTaxOf(v) ==
    MulFix(MulFix(comparison[v].grossMonthlyPension, debekaErtragsanteil), personalTaxRate)

PayoutTaxed(v) ==
    /\ comparison[v].monthlyPension = comparison[v].grossMonthlyPension - PayoutTaxOf(v)
    /\ comparison[v].totalTax = PayoutTaxOf(v) * 12 * retirementYears

PayoutUntaxed(v) == comparison[v].monthlyPension = comparison[v].grossMonthlyPension

\* C10: per vehicle exactly one treatment applies.  debeka and klassisch
\* (Ertragsanteil) compound at the untaxed rate and are taxed on the payout
\* only; etf (annual capital-gains tax) compounds at a tax-reduced rate and
\* its net monthly pension equals its gross monthly pension.
C10_TreatmentsExclusive ==
    /\ \A v \in {"debeka", "klassisch"} : AccumulationUntaxed(v) /\ PayoutTaxed(v)
    /\ AccumulationTaxed("etf") /\ PayoutUntaxed("etf")

C10_Witness ==
    /\ ValidComparisonInputs
    /\ inputs.currentAssets > 0
    /\ PayoutTaxOf("debeka") > 0
    /\ comparison.debeka.monthlyPension < comparison.debeka.grossMonthlyPension
    /\ comparison.etf.monthlyPension = comparison.etf.grossMonthlyPension
    /\ comparison.etf.finalCapital > 0

\* C11: for debeka and klassisch the net monthly pension is the vehicle's
\* own gross monthly pension minus (gross * 0.17) * 0.25, which is
\* gross * (1 - 0.0425) to within a thousandth plus one cent.
C11_ErtragsanteilPayoutTax ==
    \A v \in {"debeka", "klassisch"} :
        LET gross == comparison[v].grossMonthlyPension
            taxableAmount == MulFix(gross, 170000)
            tax == MulFix(taxableAmount, 250000)
        IN  /\ gross = DivInt(MulFix(comparison[v].finalCapital, withdrawalRate), 12)
            /\ comparison[v].monthlyPension = gross - tax
            /\ Abs(comparison[v].monthlyPension - MulFix(gross, Scale - 42500))
                  <= (Abs(gross) \div 1000) + 1

C11_Witness ==
    /\ ValidComparisonInputs
    /\ inputs.currentAssets > 0
    /\ comparison.klassisch.grossMonthlyPension > 100 * Cents
    /\ comparison.klassisch.grossMonthlyPension # comparison.debeka.grossMonthlyPension
    /\ comparison.klassisch.monthlyPension < comparison.klassisch.grossMonthlyPension
    /\ comparison.debeka.monthlyPension < comparison.debeka.grossMonthlyPension

\* a vehicle's expected annual return and annual cost rate, in millionths
ExpectedAnnualReturn(v) ==
    CASE v = "debeka" -> 60000 [] v = "etf" -> 70000 [] v = "klassisch" -> 20000

AnnualCostRate(v) ==
    CASE v = "debeka" -> 13000 [] v = "etf" -> 3000 [] v = "klassisch" -> 10000

\* the lump sum alone and the contribution stream alone, each compounded
\* at the given annual rate
LumpSumAt(rate) == MulFix(inputs.currentAssets * Cents, Pow(Scale + rate, years))

StreamAt(rate) ==
    MulAnnuity(inputs.monthlyContribution * Cents,
               AnnuityFactor(DivInt(rate, 12), years * 12))

C13_WithdrawalConversion ==
    /\ withdrawalRate \in 0..Scale
    /\ \A v \in VehicleNames :
          /\ comparison[v].grossMonthlyPension =
                DivInt(MulFix(comparison[v].finalCapital, 40000), 12)
          /\ comparison[v].finalCapital = 0 => comparison[v].grossMonthlyPension = 0
    /\ (inputs.monthlyContribution > 0 /\ years > 0)
          => estimatedPensionFromContributions(inputs.monthlyContribution * Cents, years)
               = DivInt(MulFix(MulAnnuity(inputs.monthlyContribution * Cents,
                                          AnnuityFactor(DivInt(40000, 12), years * 12)),
                               40000), 12)
    /\ estimatedPensionFromContributions(0, years) = 0

C13_Witness ==
    /\ comparison.debeka.finalCapital = 0
    /\ comparison.debeka.grossMonthlyPension = 0
    /\ inputs.retirementAge > inputs.currentAge
    /\ inputs # DefaultInputs

\* C14: every rate field of a vehicle result is a decimal fraction in
\* [0,1]: the effective net annual return is the fraction the vehicle
\* compounded at, and the reported tax rate is a fraction.
C14_RatesAreFractions ==
    \A v \in VehicleNames :
        /\ comparison[v].netReturn \in 0..Scale
        /\ comparison[v].taxRate \in 0..Scale
        /\ CompoundedAt(v, comparison[v].netReturn)

\* the tax of the claim: each accumulation year's gain times the tax rate.
\* The capital grows by the after-tax part (1 - t) of every year's gain, so
\* the gains sum to (finalCapital - totalContributions) / (1 - t).
GainsTax(finalCapital, totalContributions) ==
    MulFix(finalCapital - totalContributions,
           DivTo(abgeltungssteuer, Scale - abgeltungssteuer, 6))

\* C15: for valid inputs the ETF's totalTax is the tax on its gains (to
\* within a hundredth plus one cent), and it is 0 when there are no gains.
C15_EtfTaxIsOnGains ==
    ValidComparisonInputs
    => LET expected == GainsTax(comparison.etf.finalCapital,
                                comparison.totalContributions)
       IN  /\ Abs(comparison.etf.totalTax - expected) <= (Abs(expected) \div 100) + 1
           /\ (comparison.etf.finalCapital = comparison.totalContributions
                 => comparison.etf.totalTax = 0)

\* the result a fresh run on the same four inputs gives: the memo body on
\* the inputs, from the default language and with no earlier changes
FreshRun(currentAge, retirementAge, monthlyContribution, currentAssets) ==
    Comparison([ currentAge |-> currentAge, monthlyContribution |-> monthlyContribution,
                 currentAssets |-> currentAssets, retirementAge |-> retirementAge ])

\* C18: the comparison result and the winner are those of a fresh run on
\* the four current inputs, whatever input changes and language switches
\* came before.
C18_Determinism ==
    LET fresh == FreshRun(inputs.currentAge, inputs.retirementAge,
                          inputs.monthlyContribution, inputs.currentAssets)
    IN  /\ comparison = fresh
        /\ winner = Winner(fresh)

C18_Witness ==
    /\ language = "en"
    /\ inputs.currentAssets > 0
    /\ inputs.monthlyContribution = 0
    /\ inputs.currentAge # DefaultInputs.currentAge
    /\ comparison = FreshRun(inputs.currentAge, inputs.retirementAge,
                              inputs.monthlyContribution, inputs.currentAssets)

\* the arguments calculateFutureValue accepts: nothing negative, at most
\* 100 years
FvAccepted(m, r, y) == m >= 0 /\ r >= 0 /\ y >= 0 /\ y <= 100

\* the debeka future value of the comparison on a lump sum, the call's
\* contribution and the call's years
LumpSumFutureValue(initialCapital) ==
    VehicleFutureValue(initialCapital * Cents, fvCall.monthlyPayment * Cents,
                       debekaNetGrowth, debekaMonthlyReturn,
                       fvCall.years, fvCall.years * 12)

\* C19: for a call inside the accepted domain (nothing negative, years up
\* to and including 100) the returned future value is at most the value
\* returned for any larger annualRate, any larger monthlyContribution and
\* any larger number of years of the domain, the other arguments kept; the
\* future value with a lump sum is non-decreasing in the lump sum.
C19_Monotonicity ==
    (FvCalled /\ FvAccepted(fvCall.monthlyPayment, fvCall.annualRate, fvCall.years))
    => /\ \A r \in FvRates :
             r >= fvCall.annualRate
             => calculateFutureValue(fvCall.monthlyPayment * Cents, r, fvCall.years).value
                  >= fvOutcome.value
       /\ \A m \in FvPayments :
             m >= fvCall.monthlyPayment
             => calculateFutureValue(m * Cents, fvCall.annualRate, fvCall.years).value
                  >= fvOutcome.value
       /\ \A y \in FvYears :
             (y >= fvCall.years /\ y <= 100)
             => calculateFutureValue(fvCall.monthlyPayment * Cents, fvCall.annualRate, y).value
                  >= fvOutcome.value
       /\ \A c1, c2 \in TypedAssets :
             c1 <= c2 => LumpSumFutureValue(c1) <= LumpSumFutureValue(c2)

C19_Witness ==
    /\ FvCalled
    /\ fvCall.monthlyPayment > 0
    /\ fvCall.annualRate > 0
    /\ fvCall.years = 100
    /\ fvOutcome.value > calculateFutureValue(fvCall.monthlyPayment * Cents,
                                               fvCall.annualRate, 25).value
    /\ fvOutcome.value > fvCall.monthlyPayment * Cents * 1200

\* C20: the form's payoutEndAge is above its payoutStartAge in every state
\* the calculator reaches, in the values every simulation request was sent
\* with, and for every pair of options the two selects offer.
C20_PayoutEndAfterStart ==
    /\ formValues.payoutEndAge > formValues.payoutStartAge
    /\ defaultValues.payoutEndAge > defaultValues.payoutStartAge
    /\ simulationMutation.variables.payoutEndAge
          > simulationMutation.variables.payoutStartAge
    /\ \A s \in payoutStartAgeOptions, e \in payoutEndAgeOptions : e > s

C20_Witness ==
    /\ simulationMutation.status = "success"
    /\ simulationMutation.variables.payoutStartAge = 70
    /\ simulationMutation.variables.payoutEndAge = 75
    /\ formValues.payoutStartAge = 62
    /\ defaultValues # FormDefaults

\* a response arrives and is applied to the displayed state
ResultApplied ==
    /\ simulationMutation.status = "pending"
    /\ simulationResults' # simulationResults

\* C16: with a form changed through its fields only (no pre-fill), a
\* response that arrives when the form holds newer values than the request
\* was sent with, and no newer request is scheduled or in flight (the
\* timer for the newer values has fired or is gone), is discarded: it is
\* applied only if it answers the form's current values.
C16_OnlyLatestResultApplied ==
    [][ (ResultApplied /\ ~simulationTimer /\ defaultValues = FormDefaults)
          => simulationMutation.variables = formValues ]_vars

\* C17: once a simulation result is present, every displayed kpi value
\* (monthlyPension, finalPayout, totalCosts, effectiveReturn) is the
\* corresponding value of the newest result.
C17_KpisFollowNewestResult ==
    simulationResults.present
    => \A f \in DOMAIN editableValues :
          editableValues[f].value = simulationResults.kpis[KpiOf(f)]

\* C21: every plan sent for simulation states one accumulation horizon: its
\* term ends where the payout starts (startAge + termYears = payoutStartAge)
\* and termYears = payoutStartAge - currentAge; a plan that does not is
\* never sent.
C21_HorizonsAgree ==
    simulationMutation.status # "idle"
    => LET plan == simulationMutation.variables
       IN  /\ plan.startAge + plan.termYears = plan.payoutStartAge
           /\ plan.termYears = plan.payoutStartAge - plan.currentAge

\* the capital a gross monthly payout stands for at a rate: payout * 12 / rate
ImpliedCapital(payout, rate) == DivTo(payout * 12, rate, 6)

\* the capital that one cent of monthly payout stands for at a rate, the
\* resolution of amounts held in cents
PayoutResolution(rate) == (12 * Scale) \div rate

\* C22: for every vehicle with capital >= 0, re-deriving the capital from
\* the gross monthly pension as payout * 12 / rate gives the final capital
\* back, to within the capital one cent of monthly payout stands for.
C22_WithdrawalRoundTrip ==
    \A v \in VehicleNames :
        (comparison[v].finalCapital >= 0 /\ withdrawalRate > 0 /\ withdrawalRate <= Scale)
        => Abs(ImpliedCapital(comparison[v].grossMonthlyPension, withdrawalRate)
               - comparison[v].finalCapital) <= PayoutResolution(withdrawalRate)

C22_Witness ==
    /\ ValidComparisonInputs
    /\ inputs.currentAssets > 0
    /\ inputs.monthlyContribution > 0
    /\ comparison.etf.finalCapital > 10000 * Cents
    /\ ImpliedCapital(comparison.etf.grossMonthlyPension, withdrawalRate)
         > comparison.etf.finalCapital - PayoutResolution(withdrawalRate)
    /\ comparison.etf.grossMonthlyPension * 12 < comparison.etf.finalCapital

\* the displayed result is the one of the form's values (or the form is
\* invalid, or the last request failed)
Synced ==
    \/ ~formSchema(formValues)
    \/ simulationMutation.status = "error"
    \/ /\ simulationMutation.status = "success"
       /\ simulationMutation.variables = formValues
       /\ simulationResults.present

\* the user changes a form field
UserChangesForm ==
    \/ ChangeFormMonthlyContribution
    \/ SelectPayoutStartAge
    \/ SelectPayoutEndAge

\* C23: if the user stops changing the form, then from some point on the
\* displayed simulationResults are those of a simulation run with the
\* form's final values.
C23_FinalValuesSimulated ==
    <>[][~UserChangesForm]_vars => <>[]Synced

\* C24: at any time at most one simulation timer is scheduled, however many
\* form changes follow one another (each change clears the timer the ref
\* names before it schedules the next, so a burst of changes leaves one
\* timer and starts at most one request), and no timer is left to fire once
\* the page has unmounted.
C24_OneTimerPending ==
    /\ scheduledTimers <= 1
    /\ simulationTimer <=> scheduledTimers = 1
    /\ ~mounted => scheduledTimers = 0

\* two fields were changed one after the other while the first request was
\* still pending, and one timer is scheduled
C24_Witness ==
    /\ mounted
    /\ scheduledTimers = 1
    /\ simulationMutation = [ status |-> "pending", variables |-> FormDefaults ]
    /\ formValues.monthlyContribution # FormDefaults.monthlyContribution
    /\ formValues.payoutStartAge # FormDefaults.payoutStartAge
    /\ formValues.payoutEndAge # FormDefaults.payoutEndAge

\* a simulation request, a scenario save or an inline value save is under way
OperationInFlight ==
    \/ simulationMutation.status = "pending"
    \/ saveScenarioMutation = "pending"
    \/ pendingEditSaves # <<>>

\* C25: isLoading is true whenever a simulation request is in flight and
\* false once no operation is in flight, under every interleaving of
\* simulation requests, scenario saves and inline value saves.
C25_LoadingTracksWork ==
    /\ simulationMutation.status = "pending" => isLoading
    /\ ~OperationInFlight => ~isLoading

\* value and originalValue of every editable field
StoredValues ==
    [ f \in EditableFields |->
        [ value |-> editableValues[f].value,
          originalValue |-> editableValues[f].originalValue ] ]

\* the entry of a field is non-numeric, negative or, for the rate, above 1
EntryRejected(field) ==
    LET entry == parseFloat(tempEditValues[field])
    IN  \/ entry.nan
        \/ entry.value < 0
        \/ field = "effectiveReturn" /\ entry.value > 1000

\* C29: value and originalValue of the editable fields change only through
\* an accepted handleEditSave or a simulation-results update:
\* handleEditStart, handleEditValueChange, handleEditCancel and a rejected
\* handleEditSave leave them unchanged, and a rejected save leaves the field
\* in edit mode with a validation error recorded.
C29_StoredValuesFrame ==
    [][ /\ StoredValues' # StoredValues
            => \/ SimulationSucceeds
               \/ /\ HandleEditSave
                  /\ \E field \in EditedFields :
                        /\ editableValues[field].isEditing
                        /\ ~EntryRejected(field)
        /\ \A field \in EditedFields :
              (HandleEditSave /\ editableValues[field].isEditing /\ EntryRejected(field))
              => /\ StoredValues' = StoredValues
                 /\ editableValues'[field].isEditing
                 /\ validationErrors'[field] # "" ]_vars

\* a rate of 2 was entered and its save rejected: the field is still being
\* edited, carries the range message and holds the simulated rate
C29_Witness ==
    /\ editableValues["effectiveReturn"].isEditing
    /\ tempEditValues["effectiveReturn"] = <<"2">>
    /\ validationErrors["effectiveReturn"] = "Rendite muss zwischen 0% und 100% liegen"
    /\ editableValues["effectiveReturn"].value = 52
    /\ editableValues["effectiveReturn"].originalValue = 52

\* C26: when storage says that onboarding was completed, the wizard is not
\* opened on page load: showOnboarding turns true only by the settings
\* button, whatever the order of loadFromStorage resolving and the layout's
\* effect running.
C26_CompletedNeverAutoOpens ==
    [][ (localStorage.onboardingCompleted /\ ~layout.showOnboarding
           /\ layout'.showOnboarding)
        => PressSettingsButton ]_vars

\* the paths B, B without its trailing slash and B + "x" read as "/", "/"
\* and "/x"
BasePathsNormalise(base) ==
    /\ LocationOf(base, [ pathname |-> base, search |-> <<>> ]) = RootPath
    /\ LocationOf(base, [ pathname |-> StripTrailingSlash(base), search |-> <<>> ])
         = RootPath
    /\ LocationOf(base, [ pathname |-> base \o <<"x">>, search |-> <<>> ]) = <<"/", "x">>

\* C27: under a base B other than "/", navigate(p) writes the URL path
\* B-without-trailing-slash + p and sets the location to p, reading that URL
\* as the initial state and the popstate handler do gives p again, and B,
\* B without its trailing slash and B + "x" read as "/", "/" and "/x".
C27_BasePathRoundTrip ==
    [][ \A to \in Routes, replace \in BOOLEAN :
          (runtimeBase # RootPath /\ navigate(to, replace))
          => /\ Location'.pathname = StripTrailingSlash(runtimeBase) \o to
             /\ loc' = to
             /\ LocationOf(runtimeBase, Location') = to
             /\ BasePathsNormalise(runtimeBase) ]_vars

\* under the base "/a/" the route "/a/x" was pushed: the URL path is
\* "/a/a/x" and the location "/a/x"
C27_Witness ==
    /\ runtimeBase = <<"/", "a", "/">>
    /\ browserHistory.index = 2
    /\ Location.pathname = <<"/", "a", "/", "a", "/", "x">>
    /\ loc = <<"/", "a", "/", "x">>

\* a query string of the form "?/actual/path"
IsRedirectQuery(search) == StartsWith(search, <<"?", "/">>)

\* C28: when the page is loaded, or popstate fires, with a query string of
\* the form "?/actual/path", the location is the route in the query string
\* with the base taken off, not window.location.pathname.
C28_RedirectDecoded ==
    [][ ((RouterLoads \/ Popstate) /\ IsRedirectQuery(Location'.search))
        => loc' = StripBase(runtimeBase', Slice(Location'.search, 1)) ]_vars

\* C30: once the banner has been closed by an explicit choice (accept all,
\* necessary only, save settings), what cookieManager stores is exactly
\* that choice: no write scheduled by an earlier category switch changes it
\* after the closing action while the banner is mounted.
C30_StoredConsentIsTheChoice ==
    (cookieBanner.mounted /\ chosenConsent.present) => storedConsent = chosenConsent

====
